---- MODULE Spec2Model ----
(***************************************************************************)
(* A model of the Transaction class and decodeTx of src/index.js.          *)
(*                                                                         *)
(* Byte strings (Buffers) are sequences of 0..255.  JavaScript strings are *)
(* sequences of character codes.  Keccak-256 is taken to be collision      *)
(* free, so a hash is represented by the item list that was RLP-encoded    *)
(* and hashed (its pre-image).  ECDSA is modelled symbolically: the        *)
(* variable sig records which (pre-image, recovery id, r, s) the signature  *)
(* currently held by the record is a genuine signature for, and by which   *)
(* key; recovery with any other pre-image or recovery id yields a foreign  *)
(* key.                                                                    *)
(***************************************************************************)
EXTENDS Integers, Sequences, FiniteSets, TLC

(* ------------------------------ bounds --------------------------------- *)
\* largest chain id passed to the constructor, to sign and to hash
MaxChainId == 2
\* number of sign calls on one record
MaxSigns == 1
\* longest `data` field
MaxDataLen == 1

\* private keys
Keys == {1, 2}
ChainIds == 0..MaxChainId

(* ------------------------ program constants ---------------------------- *)
\* secp256k1n/2, big-endian
N_DIV_2 ==
  << 127, 255, 255, 255, 255, 255, 255, 255, 255, 255, 255, 255, 255, 255, 255, 255,
     93, 87, 110, 115, 87, 164, 80, 29, 223, 233, 47, 70, 104, 27, 32, 160 >>

txGas == 21000
txCreation == 32000
txDataZeroGas == 4
txDataNonZeroGas == 68

\* the chain id verifySignature and decodeTx assume
VerifyChainId == 1

\* field positions in this.raw (1-based)
iNonce == 1
iGasPrice == 2
iGasLimit == 3
iTo == 4
iValue == 5
iData == 6
iAction == 7
iVote == 8
iNickname == 9
iAsset == 10
iAssetInfo == 11
iSubAddress == 12
iAbi == 13
iV == 14
iR == 15
iS == 16

AddrLen == 20
SigLen == 32

(* --------------------------- byte helpers ------------------------------ *)
RECURSIVE StripZeros(_)
StripZeros(b) ==
  IF Len(b) > 0 /\ b[1] = 0 THEN StripZeros(Tail(b)) ELSE b

RECURSIVE BufferToInt(_)
\* big-endian bytes -> number (ethUtil.bufferToInt / new BN(buf))
BufferToInt(b) ==
  IF Len(b) = 0 THEN 0
  ELSE 256 * BufferToInt(SubSeq(b, 1, Len(b) - 1)) + b[Len(b)]

RECURSIVE MinBytes(_)
\* minimal big-endian bytes of a positive number, <<>> for 0
MinBytes(n) ==
  IF n = 0 THEN << >> ELSE Append(MinBytes(n \div 256), n % 256)

\* ethUtil.toBuffer(number) = intToBuffer: 0 becomes the single byte 00
IntToBuffer(n) == IF n = 0 THEN << 0 >> ELSE MinBytes(n)

\* rlp's toBuffer(number): 0 becomes the empty buffer
RlpNum(n) == MinBytes(n)

RECURSIVE LexCmp(_, _)
LexCmp(a, b) ==
  IF Len(a) = 0 THEN 0
  ELSE IF a[1] > b[1] THEN 1
  ELSE IF a[1] < b[1] THEN -1
  ELSE LexCmp(Tail(a), Tail(b))

\* new BN(a).cmp(new BN(b)) on unsigned big-endian byte strings
BNcmp(a, b) ==
  LET x == StripZeros(a)
      y == StripZeros(b)
  IN IF Len(x) > Len(y) THEN 1
     ELSE IF Len(x) < Len(y) THEN -1
     ELSE LexCmp(x, y)

RECURSIVE Flatten(_)
Flatten(ss) ==
  IF Len(ss) = 0 THEN << >> ELSE Head(ss) \o Flatten(Tail(ss))

Fill(n, b) == [i \in 1..n |-> b]

(* ------------------- field descriptors and the setter ------------------ *)
\* the `length` of each field descriptor, 0 where none is declared
FieldLength ==
  << 32, 32, 32, 20, 32, 0, 2, 0, 0, 20, 0, 0, 0, 0, 32, 32 >>

FieldAllowLess ==
  << TRUE, TRUE, TRUE, FALSE, TRUE, FALSE, TRUE, FALSE, FALSE, FALSE, FALSE,
     FALSE, FALSE, FALSE, TRUE, TRUE >>

FieldAllowZero ==
  << FALSE, FALSE, FALSE, TRUE, FALSE, TRUE, FALSE, TRUE, TRUE, TRUE, TRUE,
     TRUE, TRUE, TRUE, TRUE, TRUE >>

\* the value a field's setter stores for the Buffer b (ethUtil.defineProperties)
SetterValue(i, b) ==
  LET z == IF b = << 0 >> /\ ~FieldAllowZero[i] THEN << >> ELSE b
  IN IF FieldAllowLess[i] /\ FieldLength[i] > 0 THEN StripZeros(z) ELSE z

\* whether the setter's length assertion passes for the Buffer b
SetterAccepts(i, b) ==
  LET z == SetterValue(i, b)
  IN IF FieldAllowLess[i] /\ FieldLength[i] > 0 THEN FieldLength[i] >= Len(z)
     ELSE IF ~(FieldAllowZero[i] /\ Len(z) = 0) /\ FieldLength[i] > 0
          THEN FieldLength[i] = Len(z)
          ELSE TRUE

\* a value a constructed record can hold in field i
Canonical(i, b) == SetterAccepts(i, b) /\ SetterValue(i, b) = b

(* ------------------------- string helpers ------------------------------ *)
\* JavaScript strings are sequences of character codes
Str0x == << 48, 120 >>
StrAOA == << 65, 79, 65 >>
StrNul == << 0 >>

HexChar(n) == IF n < 10 THEN 48 + n ELSE 87 + n

\* the value of a hex digit, -1 for any other character
HexVal(c) ==
  IF c >= 48 /\ c <= 57 THEN c - 48
  ELSE IF c >= 97 /\ c <= 102 THEN c - 87
  ELSE IF c >= 65 /\ c <= 70 THEN c - 55
  ELSE -1

RECURSIVE HexDigits(_)
HexDigits(b) ==
  IF Len(b) = 0 THEN << >>
  ELSE << HexChar(b[1] \div 16), HexChar(b[1] % 16) >> \o HexDigits(Tail(b))

\* ethers hexlify / ethUtil.bufferToHex: '0x' and two lower-case digits a byte
Hexlify(b) == Str0x \o HexDigits(b)

RECURSIVE FromHex(_)
\* Buffer.from(str, 'hex'): whole pairs up to the first character that is no digit
FromHex(s) ==
  IF Len(s) < 2 \/ HexVal(s[1]) < 0 \/ HexVal(s[2]) < 0 THEN << >>
  ELSE << 16 * HexVal(s[1]) + HexVal(s[2]) >> \o FromHex(SubSeq(s, 3, Len(s)))

\* str.substring(2)
Substring2(s) == SubSeq(s, 3, Len(s))

RECURSIVE HexNumber(_)
HexNumber(s) ==
  IF Len(s) = 0 THEN 0
  ELSE 16 * HexNumber(SubSeq(s, 1, Len(s) - 1)) + HexVal(s[Len(s)])

\* ToNumber('0x' + c1 + c2) followed by String.fromCharCode: NaN becomes code 0
CharFromHexPair(c1, c2) ==
  IF HexVal(c1) >= 0 /\ HexVal(c2) >= 0 THEN 16 * HexVal(c1) + HexVal(c2) ELSE 0

\* hexToString(hex), src/index.js: pairs are taken from the start of the string,
\* the '0x' prefix included
hexToString(hex) ==
  [i \in 1..((Len(hex) + 1) \div 2) |->
     IF 2 * i <= Len(hex) THEN CharFromHexPair(hex[2 * i - 1], hex[2 * i]) ELSE 0]

\* str.indexOf(pat), 0-based, -1 when absent
IndexOf(s, pat) ==
  LET hits == { i \in 1..(Len(s) - Len(pat) + 1) : SubSeq(s, i, i + Len(pat) - 1) = pat }
  IN IF hits = {} THEN -1
     ELSE (CHOOSE i \in hits : \A j \in hits : i <= j) - 1

\* str.substring(from, str.length): a negative start counts as 0
SubstringFrom(s, from) ==
  LET f == IF from < 0 THEN 0 ELSE from
  IN SubSeq(s, f + 1, Len(s))

\* address.replace(/^0x/, 'AOA')
HexToAOA(address) ==
  IF Len(address) >= 2 /\ SubSeq(address, 1, 2) = Str0x
  THEN StrAOA \o SubSeq(address, 3, Len(address))
  ELSE address

\* address.replace(/^AOA/, '0x')
AOAtoHex(address) ==
  IF Len(address) >= 3 /\ SubSeq(address, 1, 3) = StrAOA
  THEN Str0x \o SubSeq(address, 4, Len(address))
  ELSE address

RECURSIVE Utf8(_)
\* Buffer.from(str): UTF-8 of character codes below 2048
Utf8(s) ==
  IF Len(s) = 0 THEN << >>
  ELSE (IF s[1] < 128 THEN << s[1] >>
        ELSE << 192 + (s[1] \div 64), 128 + (s[1] % 64) >>) \o Utf8(Tail(s))

\* rlp's toBuffer(string): hex-prefixed strings are read as hex, others as text
RlpStr(s) ==
  IF Len(s) >= 2 /\ SubSeq(s, 1, 2) = Str0x
  THEN FromHex(IF Len(s) % 2 = 1 THEN << 48 >> \o Substring2(s) ELSE Substring2(s))
  ELSE Utf8(s)

\* bigNumberify(hex).toNumber(): '0x' is read as 0
BigNumberify(hex) == HexNumber(Substring2(hex))

(* ------------------------------- RLP ----------------------------------- *)
\* the length header: short form up to 55 bytes, long form above
RlpHeader(base, n) ==
  IF n <= 55 THEN << base + n >>
  ELSE << base + 55 + Len(MinBytes(n)) >> \o MinBytes(n)

RlpEncodeItem(b) ==
  IF Len(b) = 1 /\ b[1] < 128 THEN b ELSE RlpHeader(128, Len(b)) \o b

RECURSIVE RlpEncodeItems(_)
RlpEncodeItems(items) ==
  IF Len(items) = 0 THEN << >>
  ELSE RlpEncodeItem(Head(items)) \o RlpEncodeItems(Tail(items))

\* rlp.encode of a list of byte strings
RlpEncode(items) ==
  LET payload == RlpEncodeItems(items)
  IN RlpHeader(192, Len(payload)) \o payload

\* the (offset of the content, its length) of the item that starts at byte p
RlpSpan(bytes, p, base) ==
  LET t == bytes[p] - base
  IN IF t <= 55 THEN << p + 1, t >>
     ELSE << p + 1 + (t - 55), BufferToInt(SubSeq(bytes, p + 1, p + (t - 55))) >>

RECURSIVE RlpDecodeItems(_, _, _)
RlpDecodeItems(bytes, p, end) ==
  IF p > end THEN << >>
  ELSE IF bytes[p] < 128
       THEN << << bytes[p] >> >> \o RlpDecodeItems(bytes, p + 1, end)
       ELSE LET sp == RlpSpan(bytes, p, 128)
            IN << SubSeq(bytes, sp[1], sp[1] + sp[2] - 1) >>
                 \o RlpDecodeItems(bytes, sp[1] + sp[2], end)

\* ethers RLP.decode of an encoded list of byte strings: each item as a hex string
RlpDecodeHex(bytes) ==
  LET sp == RlpSpan(bytes, 1, 192)
      items == RlpDecodeItems(bytes, sp[1], sp[1] + sp[2] - 1)
  IN [i \in 1..Len(items) |-> Hexlify(items[i])]


(* --------------------- keys, addresses, ECDSA -------------------------- *)
\* a public key is a one-element sequence naming its private key; << >> is
\* `undefined`; ForeignPub is a key that belongs to none of Keys
Undefined == << >>
PubOf(key) == << key >>
ForeignPub == << 0 >>

\* ethUtil.publicToAddress: 20 bytes determined by the public key
publicToAddress(pub) == Fill(AddrLen, 160 + pub[1])

\* the r and s of a signature made with `key`; ecsign returns a low s
SigR(key) == Fill(SigLen, key)
SigS(key) == [N_DIV_2 EXCEPT ![SigLen] = 161 - key]
\* the same signature with s replaced by n - s (the malleable twin)
SigSHigh(key) == [N_DIV_2 EXCEPT ![SigLen] = 160 + key]

NoSig == [key |-> 0, pre |-> << >>, rec |-> 0, r |-> << >>, s |-> << >>]

\* the recovery id of the signature of `pre` by `key`: fixed by the key and
\* the message, here by their parity
RecoveryId(pre, key) == (key + Len(Flatten(pre))) % 2

\* ethUtil.ecsign(msgHash, privateKey)
ecsign(pre, key) ==
  [r |-> SigR(key), s |-> SigS(key), v |-> 27 + RecoveryId(pre, key)]

\* ethUtil.ecrecover(msgHash, v, r, s): throws for a recovery id other than 0
\* and 1 and for a zero r or s; returns the signer for the hash and recovery id
\* the signature was made for, and a foreign key for any other
ecrecover(pre, v, r, s, sg) ==
  LET recovery == v - 27
  IN IF recovery # 0 /\ recovery # 1 THEN [ok |-> FALSE, pub |-> Undefined]
     ELSE IF StripZeros(r) = << >> \/ StripZeros(s) = << >>
          THEN [ok |-> FALSE, pub |-> Undefined]
     ELSE IF /\ sg.key # 0
             /\ StripZeros(r) = StripZeros(sg.r)
             /\ StripZeros(s) = StripZeros(sg.s)
             /\ pre = sg.pre
             /\ recovery = sg.rec
          THEN [ok |-> TRUE, pub |-> PubOf(sg.key)]
          ELSE [ok |-> TRUE, pub |-> ForeignPub]

(* ---------------------- Transaction: pure parts ------------------------ *)
\* the derivation without the clamp `if (chainId < 0) chainId = 0`
DeriveChainIdUnclamped(v, given, dataChainId) ==
  LET chainId == (BufferToInt(v) - 35) \div 2
  IN IF chainId # 0 THEN chainId
     ELSE IF given /\ dataChainId # 0 THEN dataChainId
     ELSE 0

\* constructor: this._chainId = chainId || data.chainId || 0; `given` tells
\* whether data.chainId was supplied
DeriveChainId(v, given, dataChainId) ==
  LET sigV == BufferToInt(v)
      q == (sigV - 35) \div 2
      chainId == IF q < 0 THEN 0 ELSE q
  IN IF chainId # 0 THEN chainId
     ELSE IF given /\ dataChainId # 0 THEN dataChainId
     ELSE 0

\* this.to.toString('hex') === ''
toCreationAddress(rw) == HexDigits(rw[iTo]) = << >>

\* hash(true, chainID): v is overwritten first when chainID is truthy
HashWithSignature(rw, chainID) ==
  LET rw1 == IF chainID # 0
             THEN [rw EXCEPT ![iV] = SetterValue(iV, IntToBuffer(chainID))]
             ELSE rw
  IN [items |-> rw1, raw |-> rw1]

\* hash(false) without the final `this.raw = raw`
KeepSubstituted(saved, substituted) == substituted

\* the raw the record is left with by hash(false) when _chainId > 0
RestoreRaw(saved, substituted) == saved

\* hash(false)
HashWithoutSignature(rw, cid) ==
  IF cid > 0
  THEN LET saved == rw
           substituted ==
             [rw EXCEPT ![iV] = SetterValue(iV, IntToBuffer(cid)),
                        ![iR] = SetterValue(iR, IntToBuffer(0)),
                        ![iS] = SetterValue(iS, IntToBuffer(0))]
       IN [items |-> substituted, raw |-> RestoreRaw(saved, substituted)]
  ELSE [items |-> SubSeq(rw, 1, 6), raw |-> rw]

\* this._subAddress = fields['subAddress']: fields is an array, so the
\* property does not exist and the value is undefined, which rlp encodes as
\* the empty string
SubAddressOfFields == Undefined

\* the items verifySignature hashes
VerifyItems(rw) ==
  << rw[iNonce], rw[iGasPrice], rw[iGasLimit], rw[iTo], rw[iValue], rw[iData],
     RlpNum(0), rw[iVote], rw[iNickname], rw[iAsset], rw[iAssetInfo],
     SubAddressOfFields, rw[iAbi], RlpNum(VerifyChainId), RlpNum(0), RlpNum(0) >>

\* verifySignature without the homestead test
HighSNeverChecked(s) == FALSE

\* the homestead test on s
HighS(s) == BNcmp(s, N_DIV_2) = 1

\* verifySignature(): the value returned and the _senderPubKey it leaves
verifySignature(rw, pub, sg) ==
  IF HighS(rw[iS]) THEN [ret |-> FALSE, pub |-> pub]
  ELSE LET v == BufferToInt(rw[iV]) - (VerifyChainId * 2 + 8)
           rec == ecrecover(VerifyItems(rw), v, rw[iR], rw[iS], sg)
       IN IF rec.ok THEN [ret |-> TRUE, pub |-> rec.pub]
          ELSE [ret |-> FALSE, pub |-> pub]

\* getSenderPublicKey(): verification runs only when no key is cached
getSenderPublicKey(rw, pub, sg) ==
  IF pub = Undefined \/ Len(pub) = 0
  THEN LET vr == verifySignature(rw, pub, sg)
       IN [ok |-> vr.ret, pub |-> vr.pub, verified |-> TRUE]
  ELSE [ok |-> TRUE, pub |-> pub, verified |-> FALSE]

\* getSenderAddress(): the cached _from when there is one
getSenderAddress(rw, pub, frm, sg) ==
  IF frm # Undefined
  THEN [ok |-> TRUE, from |-> frm, pub |-> pub, verified |-> FALSE]
  ELSE LET pk == getSenderPublicKey(rw, pub, sg)
       IN IF pk.ok
          THEN [ok |-> TRUE, from |-> publicToAddress(pk.pub), pub |-> pk.pub,
                verified |-> pk.verified]
          ELSE [ok |-> FALSE, from |-> frm, pub |-> pk.pub, verified |-> pk.verified]

RECURSIVE getDataFee(_)
getDataFee(data) ==
  IF Len(data) = 0 THEN 0
  ELSE (IF data[1] = 0 THEN txDataZeroGas ELSE txDataNonZeroGas) + getDataFee(Tail(data))

\* getBaseFee without the contract-creation surcharge
getBaseFeeNoCreation(rw) == getDataFee(rw[iData]) + txGas

getBaseFee(rw) ==
  getDataFee(rw[iData]) + txGas + (IF toCreationAddress(rw) THEN txCreation ELSE 0)

getUpfrontCost(rw) ==
  BufferToInt(rw[iGasLimit]) * BufferToInt(rw[iGasPrice]) + BufferToInt(rw[iValue])

\* validate(): the list of errors
validateErrors(rw, pub, sg) ==
  (IF ~verifySignature(rw, pub, sg).ret THEN << "Invalid Signature" >> ELSE << >>)
  \o (IF getBaseFee(rw) > BufferToInt(rw[iGasLimit])
      THEN << "gas limit is too low" >> ELSE << >>)

RECURSIVE JoinSpace(_)
\* errors.join(' ')
JoinSpace(errors) ==
  IF Len(errors) <= 1 THEN errors
  ELSE << Head(errors), " " >> \o JoinSpace(Tail(errors))


(* ------------------------------ decodeTx ------------------------------- *)
\* the sub-address text decodeTx extracts from the raw subAddress hex string
DecodeSubAddress(raw_subAddress) ==
  LET str == hexToString(raw_subAddress)
      idx == IndexOf(str, StrAOA)
  IN SubstringFrom(str, idx)

\* the items decodeTx hashes
DecodeItems(d) ==
  LET subAddress == DecodeSubAddress(d[iSubAddress])
      sub == IF subAddress = StrNul THEN Str0x ELSE subAddress
  IN << FromHex(Substring2(d[iNonce])), FromHex(Substring2(d[iGasPrice])),
        FromHex(Substring2(d[iGasLimit])), FromHex(Substring2(d[iTo])),
        FromHex(Substring2(d[iValue])), << >>, FromHex(Substring2(d[iAction])),
        << >>, << >>, << >>, << >>, RlpStr(sub), << >>,
        RlpNum(VerifyChainId), RlpNum(0), RlpNum(0) >>

\* whether decodeTx deletes the `to` key of the structured result
DropsTo(to) == to = Str0x

NoTx ==
  [from |-> << >>, nonce |-> 0, gasPrice |-> 0, gasLimit |-> 0, hasTo |-> FALSE,
   to |-> << >>, value |-> 0, data |-> << >>, v |-> 0, r |-> << >>, s |-> << >>,
   action |-> << >>, asset |-> << >>, subAddress |-> << >>]

\* decodeTx(raw_tx): ok is FALSE when ecrecover throws
decodeTx(raw_tx, sg) ==
  LET d == RlpDecodeHex(raw_tx)
      v == BigNumberify(d[iV]) - (VerifyChainId * 2 + 8)
      rec == ecrecover(DecodeItems(d), v, FromHex(Substring2(d[iR])),
                       FromHex(Substring2(d[iS])), sg)
      to == HexToAOA(d[iTo])
  IN IF ~rec.ok THEN [ok |-> FALSE, tx |-> NoTx]
     ELSE [ok |-> TRUE,
           tx |-> [from |-> HexToAOA(Hexlify(publicToAddress(rec.pub))),
                   nonce |-> BigNumberify(d[iNonce]),
                   gasPrice |-> BigNumberify(d[iGasPrice]),
                   gasLimit |-> BigNumberify(d[iGasLimit]),
                   hasTo |-> ~DropsTo(to),
                   to |-> IF DropsTo(to) THEN << >> ELSE to,
                   value |-> BigNumberify(d[iValue]),
                   data |-> d[iData],
                   v |-> BigNumberify(d[iV]),
                   r |-> d[iR],
                   s |-> d[iS],
                   action |-> d[iAction],
                   asset |-> d[iAsset],
                   subAddress |-> DecodeSubAddress(d[iSubAddress])]]

\* serialize(): rlp.encode(this.raw)
serialize(rw) == RlpEncode(rw)

(* ------------------------------- state --------------------------------- *)
VARIABLES
  raw,            \* this.raw: the 16 field values
  chainId,        \* this._chainId
  senderPubKey,   \* this._senderPubKey
  from,           \* this._from
  sig,            \* what the signature held in r, s is a genuine signature of
  given,          \* the chain id handed to the constructor: was there one,
  dataChainId,    \*   and its value
  signs,          \* number of sign calls so far
  op,             \* the last call, with its arguments
  ret             \* what the last call returned

vars == << raw, chainId, senderPubKey, from, sig, given, dataChainId, signs, op, ret >>

NoRet ==
  [ok |-> TRUE, err |-> "", bool |-> FALSE, num |-> 0, bytes |-> << >>,
   items |-> << >>, msgs |-> << >>, tx |-> NoTx]

Call(name) == [name |-> name, key |-> 0, chainID |-> 0, flag |-> FALSE]


\* sign(privateKey, chainID): the raw it leaves and the signature it made
sign(rw, key, chainID) ==
  LET h == HashWithSignature(rw, chainID)
      sg == ecsign(h.items, key)
      v == IF chainID > 0 THEN sg.v + (chainID * 2 + 8) ELSE sg.v
      rw1 == [h.raw EXCEPT ![iR] = SetterValue(iR, sg.r),
                           ![iS] = SetterValue(iS, sg.s),
                           ![iV] = SetterValue(iV, IntToBuffer(v))]
  IN [raw |-> rw1,
      sig |-> [key |-> key, pre |-> h.items, rec |-> sg.v - 27,
               r |-> rw1[iR], s |-> rw1[iS]]]

(* --------------------------- input domains ----------------------------- *)
RECURSIVE SeqsUpTo(_, _)
SeqsUpTo(S, n) ==
  IF n = 0 THEN { << >> }
  ELSE LET shorter == SeqsUpTo(S, n - 1)
       IN shorter \cup { Append(q, b) : q \in shorter, b \in S }

DataValues == SeqsUpTo({0, 1}, MaxDataLen)

ZeroAddress == Fill(AddrLen, 0)
ToValues == { << >>, ZeroAddress }

GasLimitValues ==
  { MinBytes(n) : n \in { 0, txGas, txGas + txDataNonZeroGas, txGas + txCreation,
                          txGas + txCreation + txDataNonZeroGas } }

\* the text 'AOA1' as bytes
SubAddressText == << 65, 79, 65, 49 >>

\* the values of action .. abi (fields 7..13): all empty, or exactly one set
ExtValues ==
  { [i \in iAction..iAbi |-> << >>] }
  \cup { [[i \in iAction..iAbi |-> << >>] EXCEPT ![f] = << 1 >>]
           : f \in { iAction, iVote, iNickname, iAssetInfo, iSubAddress, iAbi } }
  \cup { [[i \in iAction..iAbi |-> << >>] EXCEPT ![iAsset] = Fill(AddrLen, 7)],
         [[i \in iAction..iAbi |-> << >>] EXCEPT ![iSubAddress] = SubAddressText],
         [[i \in iAction..iAbi |-> << >>] EXCEPT ![iSubAddress] = << 0 >>] }

NoExt == [i \in iAction..iAbi |-> << >>]

VValues ==
  { << >>, << 1, 0 >> } \cup { MinBytes(n) : n \in {27, 28} \cup 34..(36 + 2 * MaxChainId) }

DefaultV == << 27 >>

Fields(gasLimit, to, data, ext, v, r, s) ==
  << << >>, << 2 >>, gasLimit, to, << 3 >>, data,
     ext[iAction], ext[iVote], ext[iNickname], ext[iAsset], ext[iAssetInfo],
     ext[iSubAddress], ext[iAbi], v, r, s >>

(* -------------------------------- Init --------------------------------- *)
\* the state new Transaction(data) leaves
Constructed(rw, g, cid, sg) ==
  /\ \A i \in 1..16 : Canonical(i, rw[i])
  /\ raw = rw
  /\ chainId = DeriveChainId(rw[iV], g, cid)
  /\ senderPubKey = Undefined
  /\ from = Undefined
  /\ sig = sg
  /\ given = g
  /\ dataChainId = cid
  /\ signs = 0
  /\ op = Call("new")
  /\ ret = NoRet

\* unsigned records that differ in the fields the fees are computed from
InitFees ==
  \E gasLimit \in GasLimitValues, to \in ToValues, data \in DataValues :
    Constructed(Fields(gasLimit, to, data, NoExt, DefaultV, << >>, << >>),
                FALSE, 0, NoSig)

\* unsigned records that differ in the fields the chain adds to Ethereum's
InitExt ==
  \E to \in ToValues, ext \in ExtValues :
    Constructed(Fields(MinBytes(txGas + txCreation), to, << >>, ext, DefaultV, << >>, << >>),
                FALSE, 0, NoSig)

\* records that differ in v and in the chain id handed to the constructor
InitChain ==
  \E v \in VValues, g \in BOOLEAN, cid \in ChainIds :
    /\ ~g => cid = 0
    /\ Constructed(Fields(MinBytes(txGas + txCreation), ZeroAddress, << >>, NoExt, v, << >>, << >>),
                   g, cid, NoSig)

\* records built from the fields of a transaction that `key` signed for the
\* pre-image verifySignature hashes, with a low s or with its high twin
InitSigned ==
  \E to \in ToValues, data \in DataValues, key \in Keys, high \in BOOLEAN,
     ext \in { e \in ExtValues : \A f \in iVote..iAbi : e[f] = << >> } :
    LET unsignedFields == Fields(MinBytes(txGas + txCreation), to, data, ext, DefaultV, << >>, << >>)
        pre == VerifyItems(unsignedFields)
        rec == IF high THEN 1 - RecoveryId(pre, key) ELSE RecoveryId(pre, key)
        r == SigR(key)
        s == IF high THEN SigSHigh(key) ELSE SigS(key)
        v == MinBytes(27 + rec + (VerifyChainId * 2 + 8))
    IN Constructed(Fields(MinBytes(txGas + txCreation), to, data, ext, v, r, s), FALSE, 0,
                   [key |-> key, pre |-> pre, rec |-> rec, r |-> r, s |-> s])

Init == InitFees \/ InitExt \/ InitChain \/ InitSigned


(* ------------------------------ actions -------------------------------- *)
\* tx.sign(key, chainID)
Sign(key, chainID) ==
  /\ signs < MaxSigns
  /\ LET sd == sign(raw, key, chainID)
     IN /\ raw' = sd.raw
        /\ sig' = sd.sig
  /\ signs' = signs + 1
  /\ op' = [Call("sign") EXCEPT !.key = key, !.chainID = chainID]
  /\ ret' = NoRet
  /\ UNCHANGED << chainId, senderPubKey, from, given, dataChainId >>

\* tx.hash(true, chainID); chainID 0 stands for a call without one
HashTrue(chainID) ==
  /\ LET h == HashWithSignature(raw, chainID)
     IN /\ raw' = h.raw
        /\ ret' = [NoRet EXCEPT !.items = h.items]
  /\ op' = [Call("hash") EXCEPT !.flag = TRUE, !.chainID = chainID]
  /\ UNCHANGED << chainId, senderPubKey, from, sig, given, dataChainId, signs >>

\* tx.hash(false)
HashFalse ==
  /\ LET h == HashWithoutSignature(raw, chainId)
     IN /\ raw' = h.raw
        /\ ret' = [NoRet EXCEPT !.items = h.items]
  /\ op' = Call("hash")
  /\ UNCHANGED << chainId, senderPubKey, from, sig, given, dataChainId, signs >>

\* tx.verifySignature()
VerifySignature ==
  /\ LET vr == verifySignature(raw, senderPubKey, sig)
     IN /\ senderPubKey' = vr.pub
        /\ ret' = [NoRet EXCEPT !.bool = vr.ret]
  /\ chainId' = VerifyChainId
  /\ op' = Call("verifySignature")
  /\ UNCHANGED << raw, from, sig, given, dataChainId, signs >>

\* tx.getSenderPublicKey()
GetSenderPublicKey ==
  /\ LET pk == getSenderPublicKey(raw, senderPubKey, sig)
     IN /\ senderPubKey' = pk.pub
        /\ chainId' = IF pk.verified THEN VerifyChainId ELSE chainId
        /\ ret' = IF pk.ok THEN [NoRet EXCEPT !.bytes = pk.pub]
                  ELSE [NoRet EXCEPT !.ok = FALSE, !.err = "Invalid Signature"]
  /\ op' = Call("getSenderPublicKey")
  /\ UNCHANGED << raw, from, sig, given, dataChainId, signs >>

\* tx.from / tx.getSenderAddress()
GetSenderAddress ==
  /\ LET sa == getSenderAddress(raw, senderPubKey, from, sig)
     IN /\ senderPubKey' = sa.pub
        /\ from' = sa.from
        /\ chainId' = IF sa.verified THEN VerifyChainId ELSE chainId
        /\ ret' = IF sa.ok THEN [NoRet EXCEPT !.bytes = sa.from]
                  ELSE [NoRet EXCEPT !.ok = FALSE, !.err = "Invalid Signature"]
  /\ op' = Call("getSenderAddress")
  /\ UNCHANGED << raw, sig, given, dataChainId, signs >>

\* tx.validate(stringError)
Validate(stringError) ==
  /\ LET errors == validateErrors(raw, senderPubKey, sig)
     IN ret' = IF stringError THEN [NoRet EXCEPT !.msgs = JoinSpace(errors)]
               ELSE [NoRet EXCEPT !.bool = (Len(errors) = 0)]
  /\ senderPubKey' = verifySignature(raw, senderPubKey, sig).pub
  /\ chainId' = VerifyChainId
  /\ op' = [Call("validate") EXCEPT !.flag = stringError]
  /\ UNCHANGED << raw, from, sig, given, dataChainId, signs >>

\* a call that only reads the record
Reads(name, result) ==
  /\ op' = Call(name)
  /\ ret' = result
  /\ UNCHANGED << raw, chainId, senderPubKey, from, sig, given, dataChainId, signs >>

GetChainId == Reads("getChainId", [NoRet EXCEPT !.num = chainId])

GetDataFee == Reads("getDataFee", [NoRet EXCEPT !.num = getDataFee(raw[iData])])

GetBaseFee == Reads("getBaseFee", [NoRet EXCEPT !.num = getBaseFee(raw)])

GetUpfrontCost == Reads("getUpfrontCost", [NoRet EXCEPT !.num = getUpfrontCost(raw)])

ToCreationAddress ==
  Reads("toCreationAddress", [NoRet EXCEPT !.bool = toCreationAddress(raw)])

\* decodeTx(tx.serialize())
DecodeTx ==
  LET dec == decodeTx(serialize(raw), sig)
  IN Reads("decodeTx",
           IF dec.ok THEN [NoRet EXCEPT !.tx = dec.tx]
           ELSE [NoRet EXCEPT !.ok = FALSE, !.err = "ecrecover"])

Next ==
  \/ \E key \in Keys, chainID \in ChainIds : Sign(key, chainID)
  \/ \E chainID \in ChainIds : HashTrue(chainID)
  \/ HashFalse
  \/ VerifySignature
  \/ GetSenderPublicKey
  \/ GetSenderAddress
  \/ \E stringError \in BOOLEAN : Validate(stringError)
  \/ GetChainId
  \/ GetDataFee
  \/ GetBaseFee
  \/ GetUpfrontCost
  \/ ToCreationAddress
  \/ DecodeTx

Spec == Init /\ [][Next]_vars


(* ------------------- specifications of parts of the API ----------------- *)
\* a client that signs, verifies and takes both hashes
NextHash ==
  \/ \E key \in Keys, chainID \in ChainIds : Sign(key, chainID)
  \/ \E chainID \in ChainIds : HashTrue(chainID)
  \/ HashFalse
  \/ VerifySignature

SpecHash == (InitChain \/ InitSigned \/ InitExt) /\ [][NextHash]_vars

\* a client that signs, verifies and asks for the sender
NextVerify ==
  \/ \E key \in Keys, chainID \in ChainIds : Sign(key, chainID)
  \/ \E chainID \in ChainIds : HashTrue(chainID)
  \/ VerifySignature
  \/ GetSenderAddress

SpecVerify == (InitSigned \/ InitFees) /\ [][NextVerify]_vars

\* a client that inspects freshly constructed records
NextChain ==
  \/ GetChainId
  \/ ToCreationAddress
  \/ GetUpfrontCost
  \/ HashFalse

SpecChain == InitChain /\ [][NextChain]_vars

\* a client that signs, verifies and validates
NextFees ==
  \/ \E key \in Keys, chainID \in ChainIds : Sign(key, chainID)
  \/ \E stringError \in BOOLEAN : Validate(stringError)
  \/ VerifySignature
  \/ GetDataFee
  \/ GetBaseFee

SpecFees == (InitFees \/ InitSigned) /\ [][NextFees]_vars

(* ------------------------------- claims -------------------------------- *)
\* what getSenderAddress() would return in the current state
SenderNow == getSenderAddress(raw, senderPubKey, from, sig)

\* what verifySignature() would return in the current state
VerifiesNow == verifySignature(raw, senderPubKey, sig).ret

\* C1: after sign(key, c), for every chain id c >= 0, verifySignature() returns
\* true and getSenderAddress() returns the address of key's public key.
C1_SignThenVerify ==
  op.name = "sign" =>
    /\ VerifiesNow
    /\ SenderNow.ok
    /\ SenderNow.from = publicToAddress(PubOf(op.key))

\* C2: for a signed record whose chain id is 1, decodeTx of its serialized form
\* returns the `from` that getSenderAddress() returns on the record, with the
\* 0x prefix rewritten to AOA.
C2_DecodeRecoversSameSender ==
  (op.name = "decodeTx" /\ sig.key # 0 /\ chainId = VerifyChainId /\ SenderNow.ok) =>
    /\ ret.ok
    /\ ret.tx.from = HexToAOA(Hexlify(SenderNow.from))

\* C3: hash(false) leaves the 16 raw field values as they were before the call,
\* whether the chain id is 0 or greater.
C3_HashFalseKeepsRaw ==
  [][(op'.name = "hash" /\ ~op'.flag) => raw' = raw]_vars

\* C3 witness: hash(false) ran on a signed record with a chain id above 0, the
\* hashed items carry the substituted v, r and s, and the record still holds
\* its own.
C3_Witness ==
  /\ op.name = "hash" /\ ~op.flag
  /\ chainId > 0
  /\ raw[iR] # << >> /\ raw[iS] # << >>
  /\ ret.items[iR] = << >> /\ ret.items[iS] = << >>
  /\ ret.items[iV] = MinBytes(chainId) /\ raw[iV] # ret.items[iV]

\* the calls C4 lists as leaving the record alone
ReadOnlyCall(c) ==
  \/ c.name \in { "verifySignature", "validate", "getSenderAddress", "getSenderPublicKey",
                  "getDataFee", "getBaseFee", "getUpfrontCost", "toCreationAddress" }
  \/ c.name = "hash" /\ ~c.flag

\* C4: verifySignature, validate, getSenderAddress, getSenderPublicKey,
\* getDataFee, getBaseFee, getUpfrontCost, toCreationAddress and hash(false)
\* change neither the 16 field values nor what getChainId() returns.
C4_ReadsChangeNothing ==
  [][ReadOnlyCall(op') => (raw' = raw /\ chainId' = chainId)]_vars

\* C5: decodeTx leaves `to` out of its result exactly when the decoded `to`
\* field is empty.
C5_DecodeOmitsEmptyTo ==
  (op.name = "decodeTx" /\ ret.ok) => (ret.tx.hasTo <=> raw[iTo] # << >>)

\* C6: when verifySignature() on the record as it is now returns false,
\* getSenderAddress() fails with 'Invalid Signature' and returns no address.
C6_FromFailsWithoutSignature ==
  (op.name = "getSenderAddress" /\ ~VerifiesNow) =>
    (~ret.ok /\ ret.err = "Invalid Signature")

\* a > b for unsigned big-endian numbers without leading zeros
GreaterNumber(a, b) ==
  \/ Len(a) > Len(b)
  \/ /\ Len(a) = Len(b)
     /\ \E i \in 1..Len(a) : a[i] > b[i] /\ \A j \in 1..(i - 1) : a[j] = b[j]

\* C7: verifySignature() returns false for every record whose s is greater than
\* secp256k1n/2, whatever the other fields and whether or not recovery works.
C7_HighSRejected ==
  (op.name = "verifySignature" /\ GreaterNumber(StripZeros(raw[iS]), N_DIV_2)) =>
    ret.bool = FALSE

\* C7 witness: verifySignature() returned false on a record whose s is above
\* secp256k1n/2 although recovery yields the signer's key.
C7_Witness ==
  /\ op.name = "verifySignature"
  /\ GreaterNumber(StripZeros(raw[iS]), N_DIV_2)
  /\ ecrecover(VerifyItems(raw), BufferToInt(raw[iV]) - (VerifyChainId * 2 + 8),
               raw[iR], raw[iS], sig) = [ok |-> TRUE, pub |-> PubOf(sig.key)]
  /\ sig.key # 0
  /\ ret.bool = FALSE

\* C8: right after construction getChainId() is floor((v-35)/2) when v >= 35 and
\* that quotient is not 0, otherwise the supplied data.chainId if one was
\* given and 0 if none was; it is never negative.
C8_ChainIdAtConstruction ==
  op.name = "new" =>
    LET v == BufferToInt(raw[iV])
        q == (v - 35) \div 2
    IN /\ chainId = (IF v >= 35 /\ q # 0 THEN q
                     ELSE IF given THEN dataChainId ELSE 0)
       /\ chainId >= 0

\* C8 witness: a record constructed with v >= 35 whose quotient is 0 and with
\* a chain id handed in, which getChainId() returns.
C8_Witness ==
  /\ op.name = "new"
  /\ BufferToInt(raw[iV]) >= 35
  /\ (BufferToInt(raw[iV]) - 35) \div 2 = 0
  /\ given /\ dataChainId = 2
  /\ chainId = 2

\* the base fee as the claim states it
ClaimedBaseFee ==
  LET data == raw[iData]
  IN Cardinality({ i \in 1..Len(data) : data[i] = 0 }) * txDataZeroGas
     + Cardinality({ i \in 1..Len(data) : data[i] # 0 }) * txDataNonZeroGas
     + txGas
     + (IF raw[iTo] = << >> THEN txCreation ELSE 0)

\* C9: validate() returns true, and validate(true) the empty string, exactly
\* when verifySignature() succeeds and gasLimit >= getBaseFee().
C9_ValidateIffSignatureAndGas ==
  op.name = "validate" =>
    LET good == VerifiesNow /\ BufferToInt(raw[iGasLimit]) >= ClaimedBaseFee
    IN IF op.flag THEN (ret.msgs = << >>) <=> good
       ELSE ret.bool <=> good

\* C9 witness: validate() returned true for a signed contract creation that
\* carries data and whose gas limit is exactly the base fee.
C9_Witness ==
  /\ op.name = "validate" /\ ~op.flag
  /\ ret.bool
  /\ raw[iTo] = << >> /\ Len(raw[iData]) > 0
  /\ BufferToInt(raw[iGasLimit]) = ClaimedBaseFee

\* C10: on a record whose chain id is 1 the items hash(false) hashes are the
\* items verifySignature() hashes, position by position.
C10_VerifyHashesWhatHashFalseHashes ==
  (op.name = "hash" /\ ~op.flag /\ chainId = VerifyChainId) =>
    ret.items = VerifyItems(raw)


====
